---- MODULE Spec2Model ----
(***************************************************************************)
(* State tracker of a WebGL context (track-context-state.ts): the shadow   *)
(* cache of context parameters, the push/pop scope stack, and the          *)
(* get/set/useProgram interceptors installed on the context.               *)
(*                                                                         *)
(* One context `gl` is modelled.  Its parameters are:                      *)
(*   "a", "b"   two parameters, each with its own setter setA(v), setB(v), *)
(*              and both set to one value by the setter setAB(v)           *)
(*              (as a front and a back mask are); "b" is two-valued        *)
(*   "v"        a vector-valued parameter with the setter setV(array)      *)
(*   "lim"      a cacheable limit: no default in the table, no setter      *)
(*   "nc"       a parameter in NON_CACHE_PARAMETERS                        *)
(* JavaScript `undefined` is the integer Undefined where a value is meant  *)
(* and the string "undefined" where a parameter name or an option is meant.*)
(* An array value is a reference into Heap, which gives its elements.      *)
(***************************************************************************)
EXTENDS Integers, Sequences, FiniteSets, TLC

\* ------------------------------------------------------------------ bounds
MaxVal == 2        \* parameter "a" takes the values 0..MaxVal
MaxDepth == 2      \* pushContextState is offered while the stack is shorter
QueryDepth == 1    \* the same, where the queries or the program are explored
MaxProg == 1       \* program handles 1..MaxProg, besides null

\* ------------------------------------------------------------ JS constants
Undefined == -1
Null == 0

\* --------------------------------------------------- parameter tables
\* (webgl-parameter-tables: static data the tracker is given)
Values == 0..MaxVal
Flags == {0, 1}
Handles == 0..MaxProg

\* the arrays a caller holds: four containers, two of them with the same
\* elements, one with these in the other order, one shorter
Refs == 10..13
Heap == (10 :> <<0, 1>>) @@ (11 :> <<0, 1>>) @@ (12 :> <<1, 0>>) @@ (13 :> <<0>>)

GL_PARAMETER_DEFAULTS == [a |-> 0, b |-> 1, v |-> 10]

NON_CACHE_PARAMETERS == {"nc"}

GL_HOOKED_SETTERS == {"setA", "setB", "setAB", "setV"}

\* the hooked setters of the scalar parameters
ScalarSetters == {"setA", "setB", "setAB"}

\* the arguments a hooked setter is called with
SetterParams(fn) ==
  IF fn = "setA" THEN {<<v>> : v \in Values}
  ELSE IF fn = "setV" THEN {<<r>> : r \in Refs}
  ELSE {<<v>> : v \in Flags}

\* the parameters a hooked setter writes, in the order its adapter lists them
SetterKeys(fn) ==
  IF fn = "setA" THEN <<"a">>
  ELSE IF fn = "setB" THEN <<"b">>
  ELSE IF fn = "setV" THEN <<"v">>
  ELSE <<"a", "b">>

\* the adapter of a hooked setter: the {key: value} entries its arguments
\* stand for
setter(fn, params) ==
  [i \in 1..Len(SetterKeys(fn)) |-> <<SetterKeys(fn)[i], params[1]>>]

\* the hooked setter setParameters restores a parameter with
GL_PARAMETER_SETTERS == [a |-> "setA", b |-> "setB", v |-> "setV"]

\* the parameter names a query is made with
Pnames == {"a", "lim", "nc", "undefined"}

\* every name a query can be made with
AllPnames == Pnames \cup {"b", "v"}

\* the options trackContextState is called with: <<>> is no options object,
\* otherwise <<enable, copyState>>
OptionValues == {"undefined", "true", "false"}
Options == {<<>>} \cup {<<e, c>> : e \in OptionValues, c \in OptionValues}

\* ------------------------------------------------------------------- state
VARIABLES
  ctx,         \* the context's own parameter values (what the GPU state is)
  ctxProgram,  \* the program the context has bound
  tracked,     \* gl.state exists
  wrappers,    \* how many interceptor layers each hooked operation carries
  cache,       \* gl.state.cache: parameter name -> value (a partial map)
  stateStack,  \* gl.state.stateStack: sequence of frames (partial maps)
  enable,      \* gl.state.enable
  program,     \* gl.state.program
  last,        \* the call made last and what it did
  repeated,    \* the last call repeats the intercepted call before it
  runCalls,    \* underlying calls issued by the current run of identical
               \* intercepted calls
  pushed,      \* history, one entry per open frame: cache and context as
               \* they were at the push
  rewrote      \* history: since the last push or pop, a parameter the top
               \* frame had recorded was changed again, to a third value

vars == <<ctx, ctxProgram, tracked, wrappers, cache, stateStack, enable,
          program, last, repeated, runCalls, pushed, rewrote>>

\* obj[key] of a JS object: undefined when the key is absent
Lookup(obj, key) == IF key \in DOMAIN obj THEN obj[key] ELSE Undefined

\* obj[key] = value
Assign(obj, key, value) == (key :> value) @@ obj

\* the record of a call: its name, its argument (a setter's name, a queried
\* parameter, the enable option in effect, for a pop "afterPush" when the
\* call before it was the push, "afterBind" when it was a useProgram that
\* bound a program, and else "empty" when the popped frame was empty),
\* a setter's or useProgram's parameters; underlying set/useProgram
\* calls issued, live reads made, whether a cache entry was returned, the
\* value returned, whether it threw, whether an underlying set call it issued
\* did not apply its value, whether it took a live snapshot, the parameters
\* whose cache entry it changed, and (pop) the value of rewrote before it
\* and the parameters the popped frame held
Call(name, arg, params) ==
  [name |-> name, arg |-> arg, params |-> params,
   calls |-> 0, reads |-> 0, cacheRead |-> FALSE, ret |-> Undefined,
   threw |-> FALSE, failed |-> FALSE, copied |-> FALSE,
   changed |-> {}, rewrote |-> FALSE, recorded |-> {}]

\* the parameters whose cache entry differs between two caches
Changed(c1, c2) == {k \in DOMAIN c2 : Lookup(c1, k) # c2[k]}

\* ------------------------------------------------- the underlying context
\* the context's own getter (getParameter / isEnabled before wrapping)
originalGetterFunc(c, pname) == Lookup(c, pname)

\* the context's own setter applied to its state
originalSetterFunc(c, fn, params) ==
  [k \in DOMAIN c |->
     IF \E i \in 1..Len(SetterKeys(fn)) : SetterKeys(fn)[i] = k
     THEN params[1] ELSE c[k]]

\* ------------------------------------------------------------- utilities
\* deepArrayEqual(x, y): the same value, or two arrays of one length with
\* the same element at every index
deepArrayEqual(x, y) ==
  \/ x = y
  \/ /\ x \in Refs /\ y \in Refs
     /\ Len(Heap[x]) = Len(Heap[y])
     /\ \A i \in 1..Len(Heap[x]) : Heap[x][i] = Heap[y][i]

\* (variant: the values are compared with !==)
differsByReference(value, cached) == value # cached

\* _updateCache: whether the value given differs from the cached one
differs(value, cached) == ~deepArrayEqual(value, cached)

\* getParameters(gl): live snapshot of every parameter of the defaults table
getParameters(c) == [k \in DOMAIN GL_PARAMETER_DEFAULTS |-> c[k]]

\* ----------------------------------------------------------------- GLState
\* (variant: the frame starts as a copy of the cache)
newFrameSnapshot == cache

\* GLState.push: the frame pushed
newFrame == << >>

\* (variant: copyState is ignored)
GLStateCacheDefaults(c, copyState) == GL_PARAMETER_DEFAULTS

\* new GLState(gl, {copyState})
GLStateCache(c, copyState) ==
  IF copyState THEN getParameters(c) ELSE GL_PARAMETER_DEFAULTS

\* (variant: the check that the key is already saved is missing)
saveShadowedOverwrite(stack, key, cached) ==
  LET top == Len(stack) IN
  IF top > 0
  THEN [stack EXCEPT ![top] = Assign(@, key, cached)]
  ELSE stack

\* (variant: the value is saved in the first frame instead of the last)
saveShadowedBottom(stack, key, cached) ==
  IF Len(stack) > 0 /\ key \notin DOMAIN stack[1]
  THEN [stack EXCEPT ![1] = Assign(@, key, cached)]
  ELSE stack

\* _updateCache, the frame part: save the value being shadowed unless the
\* top frame already holds one for the key
saveShadowed(stack, key, cached) ==
  LET top == Len(stack) IN
  IF top > 0 /\ key \notin DOMAIN stack[top]
  THEN [stack EXCEPT ![top] = Assign(@, key, cached)]
  ELSE stack

\* (variant: the cached value of every entry is saved, changed or not)
updateEntryRecordAll(acc, key, value) ==
  LET cached == Lookup(acc.cache, key) IN
  [valueChanged |-> acc.valueChanged \/ differs(value, cached),
   oldValue |-> IF differs(value, cached) THEN cached ELSE acc.oldValue,
   stateStack |-> saveShadowed(acc.stateStack, key, cached),
   cache |-> Assign(acc.cache, key, value)]

\* (variant: oldValue is the value of the first entry that changed)
updateEntryFirstOld(acc, key, value) ==
  LET cached == Lookup(acc.cache, key) IN
  IF differs(value, cached)
  THEN [valueChanged |-> TRUE,
        oldValue |-> IF acc.valueChanged THEN acc.oldValue ELSE cached,
        stateStack |-> saveShadowed(acc.stateStack, key, cached),
        cache |-> Assign(acc.cache, key, value)]
  ELSE acc

\* _updateCache, one iteration of the loop for values[i]
updateEntry(acc, key, value) ==
  LET cached == Lookup(acc.cache, key) IN
  IF differs(value, cached)
  THEN [valueChanged |-> TRUE,
        oldValue |-> cached,
        stateStack |-> saveShadowed(acc.stateStack, key, cached),
        cache |-> Assign(acc.cache, key, value)]
  ELSE acc

RECURSIVE updateLoop(_, _, _)
updateLoop(acc, values, i) ==
  IF i > Len(values) THEN acc
  ELSE updateLoop(updateEntry(acc, values[i][1], values[i][2]), values, i + 1)

\* _updateCache(values)
updateCache(c, stack, values) ==
  updateLoop([valueChanged |-> FALSE, oldValue |-> Undefined,
              stateStack |-> stack, cache |-> c], values, 1)

\* ------------------------------------------------------------ interceptors
\* (variant: the original function is always called)
callsOriginalAlways(valueChanged) == TRUE

\* whether the setter spy calls the original function
callsOriginal(valueChanged) == valueChanged

\* (variant: the cache is updated after the original function, and only
\* when that applied the value)
setterSpyApplyFirst(m, fn, params, ok) ==
  LET r == updateCache(m.cache, m.stateStack, setter(fn, params))
      invoke == callsOriginal(r.valueChanged)
  IN IF invoke /\ ~ok
     THEN [m EXCEPT !.calls = @ + 1, !.failed = TRUE]
     ELSE [cache |-> r.cache,
           stateStack |-> r.stateStack,
           ctx |-> IF invoke THEN originalSetterFunc(m.ctx, fn, params) ELSE m.ctx,
           calls |-> m.calls + (IF invoke THEN 1 ELSE 0),
           failed |-> m.failed,
           ret |-> r.oldValue]

\* the setter spy gl[functionName](...params) acting on the machine
\* m = [cache, stateStack, ctx, calls, failed, ret]; ok: the underlying call
\* applies its value
setterSpy(m, fn, params, ok) ==
  LET r == updateCache(m.cache, m.stateStack, setter(fn, params))
      invoke == callsOriginal(r.valueChanged)
  IN [cache |-> r.cache,
      stateStack |-> r.stateStack,
      ctx |-> IF invoke /\ ok THEN originalSetterFunc(m.ctx, fn, params) ELSE m.ctx,
      calls |-> m.calls + (IF invoke THEN 1 ELSE 0),
      failed |-> m.failed \/ (invoke /\ ~ok),
      ret |-> r.oldValue]

Machine == [cache |-> cache, stateStack |-> stateStack, ctx |-> ctx,
            calls |-> 0, failed |-> FALSE, ret |-> Undefined]

\* setParameters(gl, values): every key of values goes, with its value,
\* through the hooked setter of that parameter
restoreKey(m, values, key, ok) ==
  IF key \in DOMAIN values
  THEN setterSpy(m, GL_PARAMETER_SETTERS[key], <<values[key]>>, ok)
  ELSE m

setParameters(m, values, ok) ==
  restoreKey(restoreKey(restoreKey(m, values, "a", ok), values, "b", ok),
             values, "v", ok)

\* (variant: the blacklist is not consulted)
bypassesCacheUndefinedOnly(pname) == pname = "undefined"

\* the getter override: the name is invalid or blacklisted, do not cache
bypassesCache(pname) == pname = "undefined" \/ pname \in NON_CACHE_PARAMETERS

\* (variant: a missing entry is not filled)
needsFillNever(c, pname) == FALSE

\* the getter override: the parameter has no cache entry yet
needsFill(c, pname) == pname \notin DOMAIN c

\* (variant: the cache entry is always returned)
hardQueryNever(enabled) == FALSE

\* the getter override: whether it makes a "hard" query of the context
\* instead of returning the cache entry
hardQuery(enabled) == ~enabled

\* (variant: the handle is compared only while caching is enabled)
rebindsWhenDisabled(cached, handle) == ~enable \/ cached # handle

\* (variant: the handle is not compared)
rebindsAlways(cached, handle) == TRUE

\* the program spy: whether it calls the original useProgram
rebinds(cached, handle) == cached # handle

\* ---------------------------------------------------------------- run count
SameCall(name, arg, params) ==
  last.name = name /\ last.arg = arg /\ last.params = params

RunCalls(name, arg, params, n) ==
  IF SameCall(name, arg, params) THEN runCalls + n ELSE n

NoRun == repeated' = FALSE /\ runCalls' = 0

\* -------------------------------------------------------------------- Init
\* the context when the tracker first sees it: as created, or already used
InitialContexts ==
  { [a |-> 0, b |-> 1, v |-> 10, lim |-> 2, nc |-> 1],
    [a |-> 1, b |-> 0, v |-> 10, lim |-> 2, nc |-> 1] }

Init ==
  /\ ctx \in InitialContexts
  /\ ctxProgram = Null
  /\ tracked = FALSE
  /\ wrappers = 0
  /\ cache = << >>
  /\ stateStack = << >>
  /\ enable = TRUE
  /\ program = Null
  /\ last = Call("none", "", << >>)
  /\ repeated = FALSE
  /\ runCalls = 0
  /\ pushed = << >>
  /\ rewrote = FALSE

\* ----------------------------------------------------------------- actions
\* the body of trackContextState for a context without gl.state: the new
\* GLState (its stateStack is empty until the caller goes on) and the
\* interceptors
install(copyState) ==
  /\ tracked' = TRUE
  /\ cache' = GLStateCache(ctx, copyState)
  /\ program' = Null
  /\ wrappers' = wrappers + 1

\* (variant: gl.state is not looked for)
needsInstallAlways == TRUE

\* whether trackContextState has to build gl.state
needsInstall == ~tracked

\* the enable option in effect: {enable = true} = options
enableOption(options) == IF options[1] = "false" THEN "false" ELSE "true"

\* (variant: copyState is not asserted)
trackThrowsNoOptions(options) == options = << >>

\* trackContextState fails before it does anything: options cannot be
\* destructured, or copyState is undefined
trackThrows(options) == options = << >> \/ options[2] = "undefined"

\* trackContextState(gl, options); the call is recorded with the enable
\* option in effect and the options given
trackContextState(options) ==
  /\ NoRun
  /\ UNCHANGED <<ctx, ctxProgram, pushed, rewrote>>
  /\ IF trackThrows(options)
     THEN /\ last' = [Call("trackContextState", "", options) EXCEPT !.threw = TRUE]
          /\ UNCHANGED <<tracked, wrappers, cache, stateStack, enable, program>>
     ELSE /\ last' = [Call("trackContextState", enableOption(options), options)
                        EXCEPT !.copied = needsInstall /\ options[2] = "true"]
          /\ IF needsInstall
             THEN install(options[2] = "true") /\ stateStack' = << >>
             ELSE UNCHANGED <<tracked, wrappers, cache, stateStack, program>>
          /\ enable' = (enableOption(options) = "true")

\* (variant: the scope is set up from a live snapshot)
pushCopyStateLive == TRUE

\* the copyState option pushContextState initializes tracking with
pushCopyState == FALSE

\* pushContextState(gl); the call is recorded with "init" when it had to
\* initialize tracking
pushContextState(depth) ==
  /\ Len(stateStack) < depth
  /\ NoRun
  /\ UNCHANGED <<ctx, ctxProgram>>
  /\ last' = [Call("push", IF ~tracked THEN "init" ELSE "", << >>)
                EXCEPT !.copied = ~tracked /\ pushCopyState]
  /\ rewrote' = FALSE
  /\ IF ~tracked
     THEN /\ install(pushCopyState)
          /\ enable' = TRUE
          /\ stateStack' = << newFrame >>
          /\ pushed' = << [cache |-> GLStateCache(ctx, pushCopyState),
                           ctx |-> ctx] >>
     ELSE /\ stateStack' = Append(stateStack, newFrame)
          /\ pushed' = Append(pushed, [cache |-> cache, ctx |-> ctx])
          /\ UNCHANGED <<tracked, wrappers, cache, enable, program>>

\* (variant: the assertion on the stack is missing)
popAssertsUntracked == ~tracked

\* the assertions of popContextState and of GLState.pop
popAsserts == ~tracked \/ ~(Len(stateStack) > 0)

\* (variant: the first frame is taken)
Bottom(seq) == IF Len(seq) > 0 THEN seq[1] ELSE << >>

\* array[array.length - 1]: undefined (no keys) on an empty array
Top(seq) == IF Len(seq) > 0 THEN seq[Len(seq)] ELSE << >>

\* this.stateStack.pop()
popFrame(stack) == SubSeq(stack, 1, Len(stack) - 1)

\* (variant: the frame is removed before the parameters are reset)
GLStatePopFirst(m, ok) ==
  setParameters([m EXCEPT !.stateStack = popFrame(@)], Top(m.stateStack), ok)

\* GLState.pop() past its assertion: reset the parameters saved in the top
\* frame, then remove the frame
GLStatePop(m, ok) ==
  LET oldValues == Top(m.stateStack)
      r == setParameters(m, oldValues, ok)
  IN [r EXCEPT !.stateStack = popFrame(@)]

\* popContextState(gl)
popContextState(ok) ==
  /\ NoRun
  /\ UNCHANGED <<ctxProgram, tracked, wrappers, enable, program>>
  /\ IF popAsserts
     THEN /\ last' = [Call("pop", "", << >>) EXCEPT !.threw = TRUE]
          /\ UNCHANGED <<ctx, cache, stateStack, pushed, rewrote>>
     ELSE LET oldValues == Top(stateStack)
              m == GLStatePop(Machine, ok)
          IN /\ cache' = m.cache
             /\ ctx' = m.ctx
             /\ stateStack' = m.stateStack
             /\ pushed' = SubSeq(pushed, 1, Len(pushed) - 1)
             /\ last' = [Call("pop", IF last.name = "push" THEN "afterPush"
                                      ELSE IF last.name = "useProgram"
                                              /\ last.calls = 1
                                      THEN "afterBind"
                                      ELSE IF oldValues = << >> THEN "empty"
                                      ELSE "", << >>)
                           EXCEPT !.calls = m.calls, !.failed = m.failed,
                                  !.changed = Changed(cache, m.cache),
                                  !.rewrote = rewrote,
                                  !.recorded = DOMAIN oldValues]
             /\ rewrote' = FALSE

\* gl[functionName](...params) for a hooked setter of a tracked context
set(fn, params, ok) ==
  /\ tracked
  /\ UNCHANGED <<ctxProgram, tracked, wrappers, enable, program>>
  /\ LET m == setterSpy(Machine, fn, params, ok)
         again == \E k \in Changed(cache, m.cache) :
                     /\ k \in DOMAIN Top(stateStack)
                     /\ m.cache[k] # Top(stateStack)[k]
     IN
     /\ cache' = m.cache
     /\ stateStack' = m.stateStack
     /\ ctx' = m.ctx
     /\ rewrote' = (rewrote \/ again)
     /\ UNCHANGED pushed
     /\ last' = [Call("set", fn, params)
                   EXCEPT !.calls = m.calls, !.ret = m.ret, !.failed = m.failed,
                          !.changed = Changed(cache, m.cache)]
     /\ repeated' = SameCall("set", fn, params)
     /\ runCalls' = RunCalls("set", fn, params, m.calls)

\* gl.getParameter(pname) / gl.isEnabled(pname) of a tracked context
get(pname) ==
  /\ tracked
  /\ NoRun
  /\ UNCHANGED <<ctx, ctxProgram, tracked, wrappers, stateStack, enable,
                 program, pushed, rewrote>>
  /\ IF bypassesCache(pname)
     THEN /\ last' = [Call("get", pname, << >>)
                        EXCEPT !.reads = 1,
                               !.ret = originalGetterFunc(ctx, pname)]
          /\ UNCHANGED cache
     ELSE LET fill == needsFill(cache, pname)
              c1 == IF fill
                    THEN Assign(cache, pname, originalGetterFunc(ctx, pname))
                    ELSE cache
          IN /\ cache' = c1
             /\ last' = [Call("get", pname, << >>)
                           EXCEPT !.changed = Changed(cache, c1),
                                  !.reads = (IF fill THEN 1 ELSE 0)
                                            + (IF hardQuery(enable) THEN 1 ELSE 0),
                                  !.cacheRead = ~hardQuery(enable),
                                  !.ret = IF hardQuery(enable)
                                          THEN originalGetterFunc(ctx, pname)
                                          ELSE Lookup(c1, pname)]

\* gl.useProgram(handle) of a tracked context
useProgram(handle) ==
  /\ tracked
  /\ UNCHANGED <<ctx, tracked, wrappers, cache, stateStack, enable, pushed,
                 rewrote>>
  /\ LET n == IF rebinds(program, handle) THEN 1 ELSE 0 IN
     /\ ctxProgram' = IF rebinds(program, handle) THEN handle ELSE ctxProgram
     /\ program' = IF rebinds(program, handle) THEN handle ELSE program
     /\ last' = [Call("useProgram", "", <<handle>>) EXCEPT !.calls = n]
     /\ repeated' = SameCall("useProgram", "", <<handle>>)
     /\ runCalls' = RunCalls("useProgram", "", <<handle>>, n)

\* ----------------------------------------------------------- specification
\* one call of the public interface or of an intercepted operation, with its
\* inputs drawn from the given sets; oks: may an underlying set call fail
Step(options_, depth, setters, pnames, handles, oks) ==
  \/ \E options \in options_ : trackContextState(options)
  \/ pushContextState(depth)
  \/ \E ok \in oks : popContextState(ok)
  \/ \E fn \in setters : \E params \in SetterParams(fn) :
        \E ok \in oks : set(fn, params, ok)
  \/ \E pname \in pnames : get(pname)
  \/ \E handle \in handles : useProgram(handle)

\* every input, underlying set calls succeed
Next == Step(Options, MaxDepth, GL_HOOKED_SETTERS, AllPnames, Handles, {TRUE})

Spec == Init /\ [][Next]_vars

\* scopes in depth: tracking stays enabled, the one program stays bound,
\* only parameters with a cache entry or outside the cache are queried
ScopeOptions == {<< >>, <<"undefined", "true">>, <<"true", "false">>}

NextScope ==
  Step(ScopeOptions, MaxDepth, ScalarSetters, {"a", "nc"}, {Null}, {TRUE})

SpecScope == Init /\ [][NextScope]_vars

\* queries and (re)initialization in depth: every option, every query,
\* scopes one deep
NextQuery ==
  Step(Options, QueryDepth, ScalarSetters, Pnames, {Null}, {TRUE})

SpecQuery == Init /\ [][NextQuery]_vars

\* program binding in depth: every handle, scopes one deep
NextProgram ==
  Step(ScopeOptions, QueryDepth, {"setB"}, {"nc"}, Handles, {TRUE})

SpecProgram == Init /\ [][NextProgram]_vars

\* program binding with caching switched on and off, scopes one deep
BindOptions == {<<"true", "true">>, <<"false", "true">>}

NextBind ==
  Step(BindOptions, QueryDepth, {"setB"}, {"nc"}, Handles, {TRUE})

SpecBind == Init /\ [][NextBind]_vars

\* every input on a context whose set calls may fail to apply their value
NextFaulty ==
  Step(ScopeOptions, QueryDepth, ScalarSetters, {"a", "nc"}, {Null}, BOOLEAN)

SpecFaulty == Init /\ [][NextFaulty]_vars

\* the vector parameter in depth: every array, scopes one deep
NextVector ==
  Step(ScopeOptions, QueryDepth, {"setV"}, {"v", "nc"}, {Null}, {TRUE})

SpecVector == Init /\ [][NextVector]_vars

\* ------------------------------------------------------------------ claims
\* a call of the given name has just been made (in the step's second state)
Did(name) == last'.name = name

\* the cache agrees with the context on every parameter it holds
Consistent == \A k \in DOMAIN cache : cache[k] = ctx[k]

\* C1: first-write-wins.  Every frame holds, for each parameter recorded in
\* it, the value the parameter had when the frame was pushed (never a later,
\* intermediate one), however many times the parameter is set in the scope;
\* and a pop leaves every parameter recorded in the popped frame with that
\* value in the cache, and in the context too when the context held that
\* value at the push.
C1_FirstWriteWins ==
  [][ /\ \A i \in 1..Len(stateStack) : \A k \in DOMAIN stateStack[i] :
            stateStack[i][k] = pushed[i].cache[k]
      /\ (Did("pop") /\ ~last'.threw) =>
            \A k \in DOMAIN Top(stateStack) :
               /\ cache'[k] = Top(pushed).cache[k]
               /\ (Top(pushed).ctx[k] = Top(pushed).cache[k])
                     => ctx'[k] = Top(pushed).cache[k] ]_vars

\* C1 witness: a pop has restored "a" (cache and context) after "a" was
\* changed twice in the scope, v0 -> v1 -> v2 with three distinct values.
C1_Witness ==
  /\ last.name = "pop" /\ last.rewrote /\ "a" \in last.changed
  /\ last.calls >= 1 /\ ctx["a"] = cache["a"]

\* C2: nested scopes restore level by level.  A pop, at any depth, leaves
\* every parameter of the cache with the value it had in the cache when the
\* matching push was made, and the context with the value it had then for
\* every parameter on which cache and context agreed at that push.
C2_PopRestoresPushState ==
  [][ (Did("pop") /\ ~last'.threw) =>
         \A k \in DOMAIN Top(pushed).cache :
            /\ cache'[k] = Top(pushed).cache[k]
            /\ (Top(pushed).ctx[k] = Top(pushed).cache[k])
                  => ctx'[k] = Top(pushed).ctx[k] ]_vars

\* C2 witness: the inner pop of two nested scopes has restored "a" to v1,
\* the value at the inner push, while the outer frame still holds v0 # v1
\* for the outer pop.
C2_Witness ==
  /\ last.name = "pop" /\ "a" \in last.changed
  /\ Len(stateStack) = 1 /\ "a" \in DOMAIN stateStack[1]
  /\ cache["a"] # stateStack[1]["a"] /\ ctx["a"] = cache["a"]

\* C3 as stated: on a tracked context every cached value equals the value
\* the context holds.
C3_CacheMatchesContext == tracked => Consistent

\* C3 amended: the cache agrees with the context when tracking is set up
\* from a live snapshot or from the defaults on a context still at its
\* defaults, and every later call whose underlying set calls succeed keeps
\* them in agreement.
C3_ConsistencyKept ==
  [][ /\ (~tracked /\ tracked'
            /\ (last'.copied \/ getParameters(ctx) = GL_PARAMETER_DEFAULTS))
         => Consistent'
      /\ (tracked /\ Consistent /\ ~last'.failed) => Consistent' ]_vars

\* C3 witness: cache and context agree after a set call that was elided,
\* the second of two identical calls of which only the first reached the
\* context, with a lazily filled entry in the cache.
C3_Witness ==
  /\ tracked /\ Consistent /\ "lim" \in DOMAIN cache
  /\ last.name = "set" /\ last.calls = 0 /\ repeated /\ runCalls = 1

\* C4 as stated: a hooked setter called repeatedly with the same arguments
\* has made exactly one underlying call in total.
C4_ExactlyOneCall ==
  (last.name = "set" /\ repeated) => runCalls = 1

\* C4 amended: a hooked setter called repeatedly with the same arguments
\* makes at most one underlying call in total: the first call makes one iff
\* it changes a cached value, and every call after the first is elided.
C4_AtMostOneCall ==
  last.name = "set" =>
    /\ runCalls <= 1
    /\ (repeated => last.calls = 0)
    /\ last.calls = (IF last.changed # {} THEN 1 ELSE 0)

\* C4 witness: the second of two identical set calls, the first of which
\* went through to the context.
C4_Witness ==
  last.name = "set" /\ repeated /\ runCalls = 1 /\ last.calls = 0

\* C5: an empty scope is a no-op.  push() on a tracked context changes
\* neither cache nor context and appends one empty frame; a pop that follows
\* a push immediately issues no underlying call and leaves cache and context
\* unchanged and the stack as it was below the popped frame.
C5_EmptyScopeNoOp ==
  [][ /\ (tracked /\ Did("push")) =>
            /\ cache' = cache /\ ctx' = ctx
            /\ stateStack' = Append(stateStack, << >>)
      /\ (last.name = "push" /\ Did("pop")) =>
            /\ ~last'.threw /\ last'.calls = 0
            /\ cache' = cache /\ ctx' = ctx
            /\ stateStack' = SubSeq(stateStack, 1, Len(stateStack) - 1) ]_vars

\* C5 witness: a pop right after a push, inside an outer scope that has
\* recorded changes.
C5_Witness ==
  /\ last.name = "pop" /\ last.arg = "afterPush" /\ last.calls = 0
  /\ Len(stateStack) = 1 /\ stateStack[1] # << >>

\* C6: disabled mode.  With enable false, a query of a cacheable parameter
\* makes a live read and returns the context's value, cache entry or not;
\* a set call still leaves its values in the cache, has recorded every
\* parameter it changed in the top frame, and makes its underlying call iff
\* it changed a cached value.
C6_DisabledMode ==
  ~enable =>
    /\ (last.name = "get" /\ ~(last.arg = "undefined")
           /\ last.arg \notin NON_CACHE_PARAMETERS) =>
          /\ last.reads >= 1 /\ ~last.cacheRead
          /\ last.ret = ctx[last.arg]
    /\ last.name = "set" =>
          /\ \A i \in 1..Len(SetterKeys(last.arg)) :
                cache[SetterKeys(last.arg)[i]] = last.params[1]
          /\ Len(stateStack) > 0 => last.changed \subseteq DOMAIN Top(stateStack)
          /\ last.calls = (IF last.changed # {} THEN 1 ELSE 0)

\* C6 witness: with enable false, a query of "a" has returned the context's
\* value while the cache entry of "a" holds another one.
C6_Witness ==
  /\ tracked /\ ~enable /\ last.name = "get" /\ last.arg = "a"
  /\ cache["a"] # ctx["a"] /\ last.ret = ctx["a"]

\* C7: blacklist bypass.  A query whose name is undefined or blacklisted
\* makes exactly one live read, returns what the context returns, reads no
\* cache entry and leaves the cache as it was, with no entry for that name,
\* whatever the enable flag.
C7_BlacklistBypass ==
  [][ (Did("get") /\ (last'.arg = "undefined"
                        \/ last'.arg \in NON_CACHE_PARAMETERS)) =>
         /\ last'.reads = 1 /\ ~last'.cacheRead
         /\ last'.ret = Lookup(ctx, last'.arg)
         /\ cache' = cache
         /\ last'.arg \notin DOMAIN cache' ]_vars

\* C7 witness: a blacklisted parameter has been queried with caching
\* enabled and a lazily filled cache.
C7_Witness ==
  /\ last.name = "get" /\ last.arg = "nc" /\ last.reads = 1 /\ enable
  /\ last.ret = ctx["nc"] /\ "lim" \in DOMAIN cache

\* C8: idempotent initialization.  trackContextState on a tracked context
\* installs no interceptor and leaves cache, scope stack, cached program and
\* context as they are; when it completes, the enable flag is the requested
\* value, and that is its only effect.
C8_ReinitializeKeepsState ==
  [][ (tracked /\ Did("trackContextState")) =>
         /\ UNCHANGED <<tracked, wrappers, cache, stateStack, program, ctx,
                        ctxProgram>>
         /\ IF last'.threw THEN enable' = enable
            ELSE enable' = (last'.arg = "true") ]_vars

\* C8 witness: trackContextState has completed on a context that was
\* tracked, with an open scope holding a recorded change and a lazily
\* filled entry, and has switched caching off.
C8_Witness ==
  /\ last.name = "trackContextState" /\ ~last.threw /\ ~enable
  /\ wrappers = 1 /\ Len(stateStack) = 1 /\ stateStack[1] # << >>
  /\ "lim" \in DOMAIN cache

\* C9: pop preconditions.  popContextState on an untracked context, or with
\* an empty scope stack, throws, issues no underlying call and leaves cache,
\* stack and context unchanged; otherwise it does not throw and removes one
\* frame.
C9_PopPreconditions ==
  [][ Did("pop") =>
         IF ~tracked \/ Len(stateStack) = 0
         THEN /\ last'.threw /\ last'.calls = 0
              /\ UNCHANGED <<tracked, cache, stateStack, ctx, ctxProgram>>
         ELSE /\ ~last'.threw
              /\ Len(stateStack') = Len(stateStack) - 1 ]_vars

\* C9 witness: a pop has thrown on a tracked context whose stack is empty
\* and whose cache is not the initial one.
C9_Witness ==
  /\ last.name = "pop" /\ last.threw /\ tracked
  /\ Len(stateStack) = 0 /\ cache # GL_PARAMETER_DEFAULTS

\* C10 as stated, last part: consecutive useProgram calls with the same
\* handle have made exactly one underlying call.
C10_ExactlyOneBind ==
  (last.name = "useProgram" /\ repeated) => runCalls = 1

\* C10 amended: useProgram calls the original operation iff the handle
\* differs from the cached one, the cached handle is the requested one after
\* every call, and consecutive calls with the same handle make at most one
\* underlying call, none after the first.
C10_ProgramShortCircuit ==
  [][ Did("useProgram") =>
         /\ last'.calls = (IF program # last'.params[1] THEN 1 ELSE 0)
         /\ program' = last'.params[1]
         /\ ctxProgram' = (IF program # last'.params[1] THEN last'.params[1]
                           ELSE ctxProgram)
         /\ runCalls' <= 1
         /\ (repeated' => last'.calls = 0) ]_vars

\* C10 witness: the second of two useProgram calls with one handle, the
\* first of which bound it.
C10_Witness ==
  /\ last.name = "useProgram" /\ repeated /\ runCalls = 1
  /\ program = 1 /\ ctxProgram = 1

\* C11: push scope auto-initialization.  pushContextState on an untracked
\* context sets tracking up from the static defaults (no live snapshot, one
\* interceptor layer, enable true) and leaves exactly one empty frame; on a
\* tracked context it appends one empty frame and leaves the enable flag,
\* the cache, the frames already there and the interceptors as they are.
C11_PushAutoInitializes ==
  [][ Did("push") =>
         IF ~tracked
         THEN /\ tracked' /\ enable' /\ ~last'.copied
              /\ cache' = GL_PARAMETER_DEFAULTS
              /\ stateStack' = << << >> >>
              /\ wrappers' = wrappers + 1
              /\ ctx' = ctx
         ELSE /\ stateStack' = Append(stateStack, << >>)
              /\ UNCHANGED <<tracked, enable, cache, wrappers, program, ctx>> ]_vars

\* C11 witness: pushContextState has initialized tracking on a context that
\* was not at its defaults: the cache holds the defaults, not the context's
\* values, and the stack holds one empty frame.
C11_Witness ==
  /\ last.name = "push" /\ last.arg = "init"
  /\ tracked /\ enable /\ wrappers = 1
  /\ cache = GL_PARAMETER_DEFAULTS /\ getParameters(ctx) # GL_PARAMETER_DEFAULTS
  /\ stateStack = << << >> >>

\* C12: lazy fill.  A query of a cacheable parameter without a cache entry
\* reads the context once and stores what it read; with caching enabled that
\* is its only live read and the stored value is returned, with caching
\* disabled a second live read gives the returned value.  A query of a
\* parameter with an entry leaves the cache alone and, with caching enabled,
\* returns the entry with no live read.  No call removes a cache entry, so
\* every query after the first is of the second kind.
C12_LazyFill ==
  [][ /\ (Did("get") /\ ~(last'.arg = "undefined")
            /\ last'.arg \notin NON_CACHE_PARAMETERS) =>
           LET pname == last'.arg IN
           /\ IF pname \notin DOMAIN cache
              THEN /\ cache' = Assign(cache, pname, ctx[pname])
                   /\ last'.reads = (IF enable THEN 1 ELSE 2)
              ELSE /\ cache' = cache
                   /\ last'.reads = (IF enable THEN 0 ELSE 1)
           /\ last'.cacheRead = enable
           /\ last'.ret = (IF enable THEN cache'[pname] ELSE ctx[pname])
      /\ tracked => DOMAIN cache \subseteq DOMAIN cache' ]_vars

\* C12 witness: with caching enabled, a query of the limit has been served
\* from the entry an earlier query filled, with no live read.
C12_Witness ==
  /\ last.name = "get" /\ last.arg = "lim" /\ enable
  /\ last.reads = 0 /\ last.cacheRead
  /\ "lim" \notin DOMAIN GL_PARAMETER_DEFAULTS
  /\ last.ret = cache["lim"] /\ cache["lim"] = ctx["lim"]

\* the positions, in the order a setter's adapter lists its parameters, of
\* those whose cached value differs from the value the call gives them
Differing(fn, params) ==
  {i \in 1..Len(SetterKeys(fn)) : Lookup(cache, SetterKeys(fn)[i]) # params[1]}

\* the greatest element of a non-empty set of positions
Latest(S) == CHOOSE i \in S : \A j \in S : j <= i

\* C13: previous-value return.  A set call reports a change (and so calls
\* the original operation) iff at least one of its entries differs from the
\* cached value, and returns to its caller the cached value, as it was
\* before the call, of the last entry in iteration order that differed;
\* a call that changes nothing returns undefined.
C13_ReturnsPreviousValue ==
  [][ Did("set") =>
         LET d == Differing(last'.arg, last'.params) IN
         /\ last'.calls = (IF d # {} THEN 1 ELSE 0)
         /\ last'.changed = {SetterKeys(last'.arg)[i] : i \in d}
         /\ last'.ret = (IF d = {} THEN Undefined
                         ELSE cache[SetterKeys(last'.arg)[Latest(d)]]) ]_vars

\* C13 witness: a two-parameter set call has changed both parameters, whose
\* previous values were different, and has returned the previous value of
\* the second.
C13_Witness ==
  /\ last.name = "set" /\ last.arg = "setAB" /\ last.changed = {"a", "b"}
  /\ Len(stateStack) = 1 /\ DOMAIN stateStack[1] = {"a", "b"}
  /\ stateStack[1]["a"] # stateStack[1]["b"]
  /\ last.ret = stateStack[1]["b"]
  /\ pushed[1].cache["b"] = last.ret /\ ~rewrote

\* C14: deep equality for change detection.  A set call of the vector
\* parameter changes its entry iff the array given has not the same sequence
\* of elements as the cached array.  Given an array with the same elements,
\* in another container or not, the call reports no change: no underlying
\* call, the cache entry (still the container cached before), the frames and
\* the context stay as they are.  Given any other array, the order of the
\* elements counting, it caches the array given and makes one underlying
\* call.
C14_DeepEquality ==
  [][ (Did("set") /\ last'.arg = "setV") =>
         LET given == last'.params[1] IN
         IF Heap[given] = Heap[cache["v"]]
         THEN /\ last'.calls = 0 /\ last'.changed = {}
              /\ last'.ret = Undefined
              /\ UNCHANGED <<cache, stateStack, ctx>>
         ELSE /\ last'.calls = 1 /\ last'.changed = {"v"}
              /\ cache'["v"] = given ]_vars

\* C14 witness: inside an open scope, the vector parameter has been set to
\* an array with the elements of the cached one held in another container;
\* no call was issued and the frame is still empty.
C14_Witness ==
  /\ last.name = "set" /\ last.arg = "setV"
  /\ last.params[1] # cache["v"] /\ Heap[last.params[1]] = Heap[cache["v"]]
  /\ last.calls = 0
  /\ Len(stateStack) = 1 /\ stateStack[1] = << >>

\* the frame a set call leaves on top: what the frame held, and the cached
\* value of every parameter at one of the given positions that it did not
\* hold yet
Recorded(frame, fn, positions) ==
  LET keys == {SetterKeys(fn)[i] : i \in positions} IN
  [k \in DOMAIN frame \cup keys |->
     IF k \in DOMAIN frame THEN frame[k] ELSE cache[k]]

\* C15: frame recording rule.  A set call, of one parameter or of several,
\* changes no frame but the top one; there it adds, for each entry that
\* differs from its cached value and is not recorded yet, the cached value
\* as it was before the call, and nothing else: recorded values stay,
\* entries that do not differ are not recorded and keep their cache value;
\* with an empty stack nothing is recorded.
C15_FrameRecordingRule ==
  [][ Did("set") =>
         LET fn == last'.arg
             d == Differing(fn, last'.params)
             top == Len(stateStack)
         IN
         /\ Len(stateStack') = top
         /\ \A i \in 1..(top - 1) : stateStack'[i] = stateStack[i]
         /\ top > 0 => stateStack'[top] = Recorded(stateStack[top], fn, d)
         /\ \A i \in 1..Len(SetterKeys(fn)) :
               i \notin d => cache'[SetterKeys(fn)[i]] = cache[SetterKeys(fn)[i]] ]_vars

\* C15 witness: in the inner of two scopes a two-parameter set call has
\* changed only its second parameter: the inner frame holds that one and not
\* the first, and the outer frame, with its own record, is as it was.
C15_Witness ==
  /\ last.name = "set" /\ last.arg = "setAB" /\ last.changed = {"b"}
  /\ Len(stateStack) = 2
  /\ DOMAIN stateStack[2] = {"b"} /\ stateStack[2]["b"] # cache["b"]
  /\ DOMAIN stateStack[1] = {"a"}

\* C16: pop ordering and isolation.  The restore of a pop runs with the
\* popped frame still on top, so the values it overwrites, all of parameters
\* that frame holds already, are recorded nowhere: after the pop the stack is
\* the stack before it without its top frame, every frame below identical.
C16_PopLeavesOuterFrames ==
  [][ (Did("pop") /\ ~last'.threw) =>
         /\ Len(stateStack') = Len(stateStack) - 1
         /\ \A i \in 1..Len(stateStack') : stateStack'[i] = stateStack[i] ]_vars

\* C16 witness: the inner pop of two nested scopes has changed "a" back, and
\* the outer frame, which held only "b" before, has no record of "a".
C16_Witness ==
  /\ last.name = "pop" /\ ~last.threw /\ "a" \in last.changed
  /\ last.calls >= 1
  /\ Len(stateStack) = 1 /\ DOMAIN stateStack[1] = {"b"}

\* C17: cache-before-apply, no rollback.  When the underlying call of a set
\* call does not apply its value, the set call still returns normally, the
\* cache holds the value given for every parameter of the setter, the
\* parameters changed are recorded in the open frame, and the context is as
\* it was; the same set call made again right after is elided (no underlying
\* call, nothing changes), so the context still has not the value.
C17_NoRollback ==
  [][ /\ (Did("set") /\ last'.failed) =>
            /\ ~last'.threw /\ last'.calls = 1 /\ last'.changed # {}
            /\ \A i \in 1..Len(SetterKeys(last'.arg)) :
                  cache'[SetterKeys(last'.arg)[i]] = last'.params[1]
            /\ Len(stateStack') > 0 =>
                  last'.changed \subseteq DOMAIN Top(stateStack')
            /\ ctx' = ctx
      /\ (last.name = "set" /\ last.failed /\ Did("set") /\ repeated') =>
            /\ last'.calls = 0 /\ ~last'.failed /\ ~last'.threw
            /\ UNCHANGED <<cache, stateStack, ctx>> ]_vars

\* C17 witness: the second of two identical calls setA(x): the first made
\* the one underlying call, which did not apply x; the second was elided;
\* the cache says x and the context holds another value.
C17_Witness ==
  /\ last.name = "set" /\ last.arg = "setA" /\ repeated
  /\ runCalls = 1 /\ last.calls = 0
  /\ cache["a"] = last.params[1] /\ ctx["a"] # last.params[1]

\* the parameters a frame holds whose cached value is not the recorded one
Stale(frame) == {k \in DOMAIN frame : cache[k] # frame[k]}

\* C18: minimal restore.  The top frame holds every parameter whose cached
\* value is not the one of the push.  A pop makes one underlying call for
\* each parameter the popped frame holds whose cached value is not the
\* recorded one, and leaves it with the recorded value; a recorded parameter
\* whose cached value is the recorded one again, and every parameter the
\* frame does not hold, keep their cache and context values and get no call.
C18_MinimalRestore ==
  [][ /\ Len(stateStack) > 0 =>
            \A k \in DOMAIN pushed[Len(pushed)].cache :
               cache[k] # pushed[Len(pushed)].cache[k]
                  => k \in DOMAIN stateStack[Len(stateStack)]
      /\ (Did("pop") /\ ~last'.threw) =>
            LET frame == stateStack[Len(stateStack)] IN
            /\ last'.calls = Cardinality(Stale(frame))
            /\ last'.changed = Stale(frame)
            /\ \A k \in Stale(frame) : cache'[k] = frame[k]
            /\ \A k \in DOMAIN cache \ Stale(frame) :
                  cache'[k] = cache[k] /\ ctx'[k] = ctx[k] ]_vars

\* C18 witness: a pop of a frame that held "a" and "b": "b" had been changed
\* and changed back inside the scope and got no call, "a" was reset by the
\* one underlying call made; the outer scope is still open.
C18_Witness ==
  /\ last.name = "pop" /\ ~last.threw
  /\ last.recorded = {"a", "b"} /\ last.changed = {"a"} /\ last.calls = 1
  /\ Len(stateStack) = 1

\* C19: the program handle is outside the scopes and the enable flag.
\* A useProgram call changes no frame, no cache entry and no parameter, and
\* calls the original operation iff the handle differs from the cached one,
\* with caching enabled or disabled alike; a push on a tracked context and a
\* pop leave the cached handle and the program bound as they are, so the
\* program bound inside a scope stays bound after the pop.
C19_ProgramOutsideScopes ==
  [][ /\ Did("useProgram") =>
            /\ UNCHANGED <<stateStack, cache, ctx, enable>>
            /\ last'.calls = (IF program # last'.params[1] THEN 1 ELSE 0)
            /\ program' = last'.params[1]
            /\ ctxProgram' = (IF program # last'.params[1]
                              THEN last'.params[1] ELSE ctxProgram)
      /\ (Did("pop") \/ (tracked /\ Did("push"))) =>
            UNCHANGED <<program, ctxProgram>> ]_vars

\* C19 witness: with caching disabled, a pop right after a useProgram call
\* that bound program 1 inside the scope: program 1 is still bound and
\* cached, the scope is closed.
C19_Witness ==
  /\ last.name = "pop" /\ last.arg = "afterBind" /\ ~last.threw
  /\ ~enable /\ program = 1 /\ ctxProgram = 1
  /\ stateStack = << >>

====
